---- MODULE Spec2Model ----
(***************************************************************************)
(* A model of helper.py, the UEFI helper plugin: the knowledge base of     *)
(* GUIDs, the segment fixup, the entry prototype, the GUID scan, the       *)
(* global-assignment passes and the protocol naming, run in the order of   *)
(* UEFIHelper.run.  The host (BinaryView) is modelled by the state it      *)
(* exposes: segments, sections, functions with their variables and HLIL,   *)
(* memory bytes, code references, and the log of define_user_symbol and    *)
(* define_user_data_var calls.                                             *)
(*                                                                         *)
(* Python strings that the code inspects (names, GUID strings, type        *)
(* tokens, field paths) are sequences of one-character strings, so that    *)
(* endswith, replace, "in" and the UUID parse are computed, not assumed.   *)
(***************************************************************************)
EXTENDS Integers, Sequences, FiniteSets, TLC

VARIABLES
    pc,               \* position of the task: which call of run() is next
    raised,           \* the exception that ended the task, or "none"
    csv,              \* rows of guids.csv as csv.reader yields them
    guids,            \* self.guids: insertion-ordered <<name, bytes_le>> pairs
    gbs_assignments,  \* self.gbs_assignments
    mem,              \* bytes of the view, address a at mem[a + 1]
    segments,         \* bv.segments
    sections,         \* the view's sections, one per name
    functions,        \* bv.functions, ordered by start
    entry_point,      \* bv.entry_point
    view_type,        \* bv.view_type
    code_refs,        \* bv.get_code_refs: address -> referencing code addresses
    imported,         \* names given to bv.import_library_type
    log               \* calls made to the host's symbol / data variable store

vars == <<pc, raised, csv, guids, gbs_assignments, mem, segments, sections,
          functions, entry_point, view_type, code_refs, imported, log>>

----------------------------------------------------------------------------
(* String literals of the program and of the inputs.                       *)

sEFI_HANDLE == <<"E", "F", "I", "_", "H", "A", "N", "D", "L", "E">>
sEFI_BOOT_SERVICES == <<"E", "F", "I", "_", "B", "O", "O", "T", "_", "S", "E", "R", "V", "I", "C", "E", "S">>
sEFI_RUNTIME_SERVICES == <<"E", "F", "I", "_", "R", "U", "N", "T", "I", "M", "E", "_", "S", "E", "R", "V", "I", "C", "E", "S">>
sEFI_SYSTEM_TABLE == <<"E", "F", "I", "_", "S", "Y", "S", "T", "E", "M", "_", "T", "A", "B", "L", "E">>
sEFI_PEI_FILE_HANDLE == <<"E", "F", "I", "_", "P", "E", "I", "_", "F", "I", "L", "E", "_", "H", "A", "N", "D", "L", "E">>
sEFI_PEI_SERVICES == <<"E", "F", "I", "_", "P", "E", "I", "_", "S", "E", "R", "V", "I", "C", "E", "S">>
sEFI_GUID == <<"E", "F", "I", "_", "G", "U", "I", "D">>
sEFI_STATUS == <<"E", "F", "I", "_", "S", "T", "A", "T", "U", "S">>
sEFI_ == <<"E", "F", "I", "_">>
sInt64 == <<"i", "n", "t", "6", "4", "_", "t">>
sStar == <<"*">>
sGuid == <<"G", "u", "i", "d">>
sArrow == <<"-", ">">>
sLocateProtocol == <<"L", "o", "c", "a", "t", "e", "P", "r", "o", "t", "o", "c", "o", "l">>
sInstallMultipleProtocolInterfaces == <<"I", "n", "s", "t", "a", "l", "l", "M", "u", "l", "t", "i", "p", "l", "e", "P", "r", "o", "t", "o", "c", "o", "l", "I", "n", "t", "e", "r", "f", "a", "c", "e", "s">>
sInstallProtocolInterface == <<"I", "n", "s", "t", "a", "l", "l", "P", "r", "o", "t", "o", "c", "o", "l", "I", "n", "t", "e", "r", "f", "a", "c", "e">>
sXLocateProtocol == <<"X", "L", "o", "c", "a", "t", "e", "P", "r", "o", "t", "o", "c", "o", "l">>
sHandleProtocol == <<"H", "a", "n", "d", "l", "e", "P", "r", "o", "t", "o", "c", "o", "l">>
sgBS == <<"g", "B", "S">>
sgRS == <<"g", "R", "S">>
sgST == <<"g", "S", "T">>
sgHandle == <<"g", "H", "a", "n", "d", "l", "e">>
sgPeiServices == <<"g", "P", "e", "i", "S", "e", "r", "v", "i", "c", "e", "s">>
sg == <<"g">>

\* Names of guids.csv rows.
nFooGuid == <<"F", "o", "o", "G", "u", "i", "d">>
nGuidedFooGuid == <<"G", "u", "i", "d", "e", "d", "F", "o", "o", "G", "u", "i", "d">>
nFooGuidBar == <<"F", "o", "o", "G", "u", "i", "d", "B", "a", "r">>
nBar == <<"B", "a", "r">>

\* GUID strings of guids.csv rows: gsUpper and gsLower spell one value, as
\* do gsMixed and gsBraced; gsBad is no UUID.
gsUpper == <<"A", "A", "A", "A", "A", "A", "A", "A", "-", "B", "B", "B", "B", "-", "C", "C", "C", "C", "-", "D", "D", "D", "D", "-", "E", "E", "E", "E", "E", "E", "E", "E", "E", "E", "E", "E">>
gsLower == <<"a", "a", "a", "a", "a", "a", "a", "a", "-", "b", "b", "b", "b", "-", "c", "c", "c", "c", "-", "d", "d", "d", "d", "-", "e", "e", "e", "e", "e", "e", "e", "e", "e", "e", "e", "e">>
gsMixed == <<"0", "0", "1", "1", "2", "2", "3", "3", "-", "4", "4", "5", "5", "-", "6", "6", "7", "7", "-", "8", "8", "9", "9", "-", "a", "a", "b", "b", "c", "c", "d", "d", "e", "e", "f", "f">>
gsBraced == <<"{", "0", "0", "1", "1", "2", "2", "3", "3", "-", "4", "4", "5", "5", "-", "6", "6", "7", "7", "-", "8", "8", "9", "9", "-", "A", "A", "B", "B", "C", "C", "D", "D", "E", "E", "F", "F", "}">>
gsBad == <<"0", "0", "1", "1", "-", "2", "2">>

\* The 16 bytes a firmware image holds for the two values (EFI_GUID layout).
imgA == <<170, 170, 170, 170, 187, 187, 204, 204, 221, 221, 238, 238, 238, 238, 238, 238>>
imgM == <<51, 34, 17, 0, 85, 68, 119, 102, 136, 153, 170, 187, 204, 221, 238, 255>>

----------------------------------------------------------------------------
(* Python's str and list operations, as the code uses them.                *)

\* s.endswith(suffix)
EndsWith(s, suffix) ==
    /\ Len(suffix) <= Len(s)
    /\ SubSeq(s, Len(s) - Len(suffix) + 1, Len(s)) = suffix

\* s starts with sub at index i (1-based)
MatchAt(s, sub, i) ==
    /\ i + Len(sub) - 1 <= Len(s)
    /\ SubSeq(s, i, i + Len(sub) - 1) = sub

\* sub in s
Contains(s, sub) == \E i \in 1..(Len(s) + 1) : MatchAt(s, sub, i)

\* s.replace(old, ''): every non-overlapping occurrence, left to right
RECURSIVE RemoveAll(_, _)
RemoveAll(s, old) ==
    IF s = <<>> THEN <<>>
    ELSE IF MatchAt(s, old, 1)
         THEN RemoveAll(SubSeq(s, Len(old) + 1, Len(s)), old)
         ELSE <<Head(s)>> \o RemoveAll(Tail(s), old)

\* s.strip(chars)
RECURSIVE LStrip(_, _)
LStrip(s, chars) ==
    IF s # <<>> /\ Head(s) \in chars THEN LStrip(Tail(s), chars) ELSE s

RECURSIVE RStrip(_, _)
RStrip(s, chars) ==
    IF s # <<>> /\ s[Len(s)] \in chars
    THEN RStrip(SubSeq(s, 1, Len(s) - 1), chars) ELSE s

Strip(s, chars) == RStrip(LStrip(s, chars), chars)

\* the concatenation of a sequence of strings
RECURSIVE Concat(_)
Concat(ss) == IF ss = <<>> THEN <<>> ELSE Head(ss) \o Concat(Tail(ss))

----------------------------------------------------------------------------
(* uuid.UUID(hex).bytes_le                                                 *)

HexLower == <<"0", "1", "2", "3", "4", "5", "6", "7", "8", "9", "a", "b", "c", "d", "e", "f">>
HexUpper == <<"0", "1", "2", "3", "4", "5", "6", "7", "8", "9", "A", "B", "C", "D", "E", "F">>

IsHex(c) == \E i \in 1..16 : HexLower[i] = c \/ HexUpper[i] = c
HexVal(c) == (CHOOSE i \in 1..16 : HexLower[i] = c \/ HexUpper[i] = c) - 1

\* UUID.__init__: braces stripped, hyphens removed, 32 hex digits required
UuidHex(s) == RemoveAll(Strip(s, {"{", "}"}), <<"-">>)
UuidValid(s) ==
    LET h == UuidHex(s)
    IN  Len(h) = 32 /\ \A i \in 1..32 : IsHex(h[i])

\* the 16 bytes of the value, most significant first
UuidBytes(s) ==
    LET h == UuidHex(s)
    IN  [i \in 1..16 |-> HexVal(h[2 * i - 1]) * 16 + HexVal(h[2 * i])]

\* UUID.bytes_le: the first three fields byte-swapped
BytesLe(s) ==
    LET b == UuidBytes(s)
    IN  <<b[4], b[3], b[2], b[1], b[6], b[5], b[8], b[7]>> \o SubSeq(b, 9, 16)

----------------------------------------------------------------------------
(* Python dicts keep insertion order: a dict is a sequence of <<key,       *)
(* value>> pairs with distinct keys.                                       *)

DictHas(d, k) == \E i \in 1..Len(d) : d[i][1] = k
DictGet(d, k) == d[CHOOSE i \in 1..Len(d) : d[i][1] = k][2]

\* d[k] = v: a present key keeps its place, a new key goes last
DictSet(d, k, v) ==
    IF DictHas(d, k)
    THEN [i \in 1..Len(d) |-> IF d[i][1] = k THEN <<k, v>> ELSE d[i]]
    ELSE Append(d, <<k, v>>)

\* dict(reader): every row must have exactly two fields
RECURSIVE DictOfRows(_, _)
DictOfRows(rows, d) ==
    IF rows = <<>> THEN d
    ELSE DictOfRows(Tail(rows), DictSet(d, Head(rows)[1], Head(rows)[2]))

\* the loop of _load_guids: guid_bytes[name] = uuid.UUID(guid).bytes_le
RECURSIVE GuidBytesOf(_, _)
GuidBytesOf(items, d) ==
    IF items = <<>> THEN d
    ELSE GuidBytesOf(Tail(items), DictSet(d, Head(items)[2], BytesLe(Head(items)[1])))

\* _load_guids: the dictionary, or the ValueError of dict() or uuid.UUID
load_guids(rows) ==
    IF \E i \in 1..Len(rows) : Len(rows[i]) # 2
    THEN [raised |-> "ValueError", guids |-> <<>>]
    ELSE LET d == DictOfRows(rows, <<>>)
         IN  IF \E i \in 1..Len(d) : ~UuidValid(d[i][1])
             THEN [raised |-> "ValueError", guids |-> <<>>]
             ELSE [raised |-> "none", guids |-> GuidBytesOf(d, <<>>)]

\* _check_guid_and_get_name: names_list[guids_list.index(guid)], or None
check_guid_and_get_name(kb, guid) ==
    IF \E i \in 1..Len(kb) : kb[i][2] = guid
    THEN LET first == CHOOSE i \in 1..Len(kb) :
                          /\ kb[i][2] = guid
                          /\ \A j \in 1..(i - 1) : kb[j][2] # guid
         IN  [found |-> TRUE, name |-> kb[first][1]]
    ELSE [found |-> FALSE, name |-> <<>>]

\* Python truth of a name: None and '' are false
Truthy(r) == r.found /\ r.name # <<>>

----------------------------------------------------------------------------
(* The host's types, variables and HLIL.                                   *)

\* A type is its token sequence; str(type) is the tokens side by side.
Type(tokens) == [tokens |-> tokens]
TypeStr(t) == Concat(t.tokens)

tHandle == Type(<<sEFI_HANDLE>>)
tPeiFileHandle == Type(<<sEFI_PEI_FILE_HANDLE>>)
tBootServicesPtr == Type(<<sEFI_BOOT_SERVICES, sStar>>)
tRuntimeServicesPtr == Type(<<sEFI_RUNTIME_SERVICES, sStar>>)
tSystemTablePtr == Type(<<sEFI_SYSTEM_TABLE, sStar>>)
tPeiServicesPtr == Type(<<sEFI_PEI_SERVICES, sStar>>)
tGuid == Type(<<sEFI_GUID>>)
tStatus == Type(<<sEFI_STATUS>>)
tInt64 == Type(<<sInt64>>)
tBootServices == Type(<<sEFI_BOOT_SERVICES>>)
tHandlePtr == Type(<<sEFI_HANDLE, sStar>>)
tBootServicesPtrPtr == Type(<<sEFI_BOOT_SERVICES, sStar, sStar>>)

\* A variable of a function: its name and declared type.
Variable(name, type) == [name |-> name, type |-> type]

\* HLIL expressions and instructions; a HLIL_VAR names a variable of the
\* function it stands in by its index in the function's vars.
Var(v) == [operation |-> "HLIL_VAR", var |-> v]
ConstPtr(c) == [operation |-> "HLIL_CONST_PTR", constant |-> c]
Const(c) == [operation |-> "HLIL_CONST", constant |-> c]
Deref(e) == [operation |-> "HLIL_DEREF", src |-> e]
AddrOf(e) == [operation |-> "HLIL_ADDRESS_OF", src |-> e]
DerefField(base, member) ==
    [operation |-> "HLIL_DEREF_FIELD", base |-> base, member |-> member]
Assign(dest, src) == [operation |-> "HLIL_ASSIGN", dest |-> dest, src |-> src]
AssignUnpack(src) == [operation |-> "HLIL_ASSIGN_UNPACK", src |-> src]
VarInit(dest, src) == [operation |-> "HLIL_VAR_INIT", dest |-> dest, src |-> src]
Call(dest, params) == [operation |-> "HLIL_CALL", dest |-> dest, params |-> params]
TailCall(dest, params) ==
    [operation |-> "HLIL_TAILCALL", dest |-> dest, params |-> params]
Ret == [operation |-> "HLIL_RET"]

\* str() of a field dereference: the base expression, "->", the member
Str(e) == e.base \o sArrow \o e.member

\* A function: [start, end), its variables (the first nparams of them are
\* parameter_vars) and its HLIL, blocks laid end to end.
Function(start, end, nparams, fvars, hlil) ==
    [start |-> start, end |-> end, nparams |-> nparams, vars |-> fvars, hlil |-> hlil]

\* bv.get_function_at: the index of the function starting at a, 0 for None
get_function_at(fs, a) ==
    IF \E i \in 1..Len(fs) : fs[i].start = a
    THEN CHOOSE i \in 1..Len(fs) : fs[i].start = a
    ELSE 0

\* bv.get_functions_at(a) != []: some function starts at a
get_functions_at_nonempty(fs, a) == \E i \in 1..Len(fs) : fs[i].start = a

\* bv.get_functions_containing: indices of the functions whose range holds a
RECURSIVE get_functions_containing_from(_, _, _)
get_functions_containing_from(fs, a, i) ==
    IF i > Len(fs) THEN <<>>
    ELSE (IF fs[i].start <= a /\ a < fs[i].end THEN <<i>> ELSE <<>>)
         \o get_functions_containing_from(fs, a, i + 1)

get_functions_containing(fs, a) == get_functions_containing_from(fs, a, 1)

\* bv.get_code_refs
get_code_refs(refs, a) == IF a \in DOMAIN refs THEN refs[a] ELSE <<>>

\* br.seek(a); br.read(n): the bytes there are, fewer than n at the end
read(m, a, n) ==
    IF a + n <= Len(m) THEN SubSeq(m, a + 1, a + n)
    ELSE IF a < Len(m) THEN SubSeq(m, a + 1, Len(m)) ELSE <<>>

----------------------------------------------------------------------------
(* The log of calls to the host's symbol and data variable store.  pass    *)
(* is the call of run() that made the request and assignment the element   *)
(* of gbs_assignments whose references were being walked, if any.          *)

SymbolRequest(pass, address, name, assignment) ==
    [op |-> "define_user_symbol", pass |-> pass, address |-> address,
     name |-> name, assignment |-> assignment]
DataVarRequest(pass, address, type) ==
    [op |-> "define_user_data_var", pass |-> pass, address |-> address, type |-> type]
PassMark(pass) == [op |-> "pass", pass |-> pass]

----------------------------------------------------------------------------
(* _fix_segments                                                           *)

SegmentRWX == {"SegmentReadable", "SegmentWritable", "SegmentExecutable"}
ReadWriteDataSectionSemantics == 3
DefaultSectionSemantics == 0

Segment(start, length, data_offset, data_length, flags) ==
    [start |-> start, length |-> length, data_offset |-> data_offset,
     data_length |-> data_length, flags |-> flags]
SegEnd(seg) == seg.start + seg.length

Section(name, start, length, semantics) ==
    [name |-> name, start |-> start, length |-> length, semantics |-> semantics]
SecEnd(sec) == sec.start + sec.length

\* bv.add_user_segment(start, length, data_offset, data_length, flags):
\* the segment at start is declared anew
add_user_segment(segs, start, length, data_offset, data_length, flags) ==
    LET new == Segment(start, length, data_offset, data_length, flags)
    IN  IF \E i \in 1..Len(segs) : segs[i].start = start
        THEN [i \in 1..Len(segs) |-> IF segs[i].start = start THEN new ELSE segs[i]]
        ELSE Append(segs, new)

\* bv.add_user_section(name, start, length, semantics = Default): the
\* section of that name is declared anew
add_user_section(secs, name, start, length, semantics) ==
    LET new == Section(name, start, length, semantics)
    IN  IF \E i \in 1..Len(secs) : secs[i].name = name
        THEN [i \in 1..Len(secs) |-> IF secs[i].name = name THEN new ELSE secs[i]]
        ELSE Append(secs, new)

\* bv.get_sections_at(a): the sections whose range holds a
RECURSIVE get_sections_at_from(_, _, _)
get_sections_at_from(secs, a, i) ==
    IF i > Len(secs) THEN <<>>
    ELSE (IF secs[i].start <= a /\ a < SecEnd(secs[i]) THEN <<secs[i]>> ELSE <<>>)
         \o get_sections_at_from(secs, a, i + 1)

get_sections_at(secs, a) == get_sections_at_from(secs, a, 1)

\* the inner loop (lines 40-42): the call passes three positional
\* arguments, (name, end - start, ReadWriteDataSectionSemantics), which the
\* host binds to (name, start, length) and leaves semantics at its default
RECURSIVE FixSections(_, _)
FixSections(secs, found) ==
    IF found = <<>> THEN secs
    ELSE FixSections(
             add_user_section(secs, Head(found).name,
                              SecEnd(Head(found)) - Head(found).start,
                              ReadWriteDataSectionSemantics,
                              DefaultSectionSemantics),
             Tail(found))

\* the outer loop (lines 32-42) over the segments the view had on entry
RECURSIVE fix_segments(_, _)
fix_segments(todo, h) ==
    IF todo = <<>> THEN h
    ELSE LET seg == Head(todo)
             segs1 == add_user_segment(h.segments, seg.start, seg.data_length,
                                       seg.data_offset, seg.data_length, SegmentRWX)
             secs1 == FixSections(h.sections, get_sections_at(h.sections, seg.start))
         IN  fix_segments(Tail(todo), [segments |-> segs1, sections |-> secs1])

----------------------------------------------------------------------------
(* _import_types_from_headers                                              *)

ImportedTypes ==
    {sEFI_GUID, sEFI_STATUS, sEFI_HANDLE, sEFI_SYSTEM_TABLE, sEFI_BOOT_SERVICES,
     sEFI_RUNTIME_SERVICES, sEFI_PEI_FILE_HANDLE, sEFI_PEI_SERVICES}

----------------------------------------------------------------------------
(* _set_entry_point_prototype                                              *)

\* func.parameter_vars[i].name = name; .type = type   (i from 1)
SetParam(fs, f, i, name, type) ==
    [fs EXCEPT ![f].vars[i] = Variable(name, type)]

\* lines 64-69: None has no parameter_vars (AttributeError), an index past
\* the parameters is an IndexError, raised after the assignments before it
set_entry_point_prototype(fs, entry, vt) ==
    LET start == get_function_at(fs, entry)
    IN  IF vt = "TE" THEN [functions |-> fs, raised |-> "none"]
        ELSE IF start = 0 THEN [functions |-> fs, raised |-> "AttributeError"]
        ELSE IF fs[start].nparams = 0 THEN [functions |-> fs, raised |-> "IndexError"]
        ELSE LET fs1 == SetParam(fs, start, 1, "ImageHandle", tHandle)
             IN  IF fs[start].nparams = 1
                 THEN [functions |-> fs1, raised |-> "IndexError"]
                 ELSE [functions |-> SetParam(fs1, start, 2, "SystemTable", tSystemTablePtr),
                       raised |-> "none"]

----------------------------------------------------------------------------
(* _find_known_guids and _apply_guid_name_if_data                          *)

\* lines 99-105
apply_guid_name_if_data(lg, fs, name, address) ==
    IF get_functions_at_nonempty(fs, address) THEN lg
    ELSE lg \o <<SymbolRequest("find_guids", address, sg \o name, <<>>),
                 DataVarRequest("find_guids", address, tGuid)>>

\* lines 127-135, for i in range(i, end)
RECURSIVE ScanRange(_, _, _, _, _, _)
ScanRange(lg, kb, m, fs, i, end) ==
    IF i >= end THEN lg
    ELSE LET data == read(m, i, 16)
             found_name == check_guid_and_get_name(kb, data)
             lg1 == IF Len(data) # 16 THEN lg
                    ELSE IF Truthy(found_name)
                         THEN apply_guid_name_if_data(lg, fs, found_name.name, i)
                         ELSE lg
         IN  ScanRange(lg1, kb, m, fs, i + 1, end)

\* line 126, for seg in self.bv.segments
RECURSIVE find_known_guids(_, _, _, _, _)
find_known_guids(lg, kb, m, fs, segs) ==
    IF segs = <<>> THEN lg
    ELSE find_known_guids(
             ScanRange(lg, kb, m, fs, Head(segs).start, SegEnd(Head(segs))),
             kb, m, fs, Tail(segs))

----------------------------------------------------------------------------
(* _check_and_prop_types_on_call (phase A of _set_global_variables)        *)

\* lines 204-210, for i in range(i, num_params), i from 0: the argument
\* list is indexed before it is looked at, so a call with fewer arguments
\* than the callee has parameters raises IndexError at the first gap
RECURSIVE PropParams(_, _, _, _, _)
PropParams(w, caller, callee, call, i) ==
    IF i >= w.functions[callee].nparams THEN w
    ELSE IF i >= Len(call.params) THEN [w EXCEPT !.raised = "IndexError"]
    ELSE LET arg == call.params[i + 1]
             w1 == IF "var" \in DOMAIN arg
                   THEN LET v == w.functions[caller].vars[arg.var]
                        IN  IF Contains(TypeStr(v.type), sEFI_)
                            THEN [w EXCEPT !.functions =
                                      SetParam(w.functions, callee, i + 1, v.name, v.type)]
                            ELSE w
                   ELSE w
         IN  PropParams(w1, caller, callee, call, i + 1)

\* lines 192-210
check_and_prop_types_on_call(w, caller, instr0) ==
    LET instr == IF instr0.operation \in {"HLIL_ASSIGN", "HLIL_ASSIGN_UNPACK"}
                 THEN instr0.src ELSE instr0
    IN  IF instr.operation \notin {"HLIL_TAILCALL", "HLIL_CALL"} THEN w
        ELSE IF instr.dest.operation # "HLIL_CONST_PTR" THEN w
        ELSE LET func == get_function_at(w.functions, instr.dest.constant)
             IN  IF func = 0 THEN [w EXCEPT !.raised = "AttributeError"]
                 ELSE PropParams(w, caller, func, instr, 0)

\* lines 218-220: the instructions of the entry function, in order, until
\* one raises
RECURSIVE PhaseALoop(_, _, _)
PhaseALoop(w, caller, k) ==
    IF w.raised # "none" \/ k > Len(w.functions[caller].hlil) THEN w
    ELSE PhaseALoop(check_and_prop_types_on_call(w, caller, w.functions[caller].hlil[k]),
                    caller, k + 1)

\* lines 217-220
phase_a(fs, entry) ==
    LET func == get_function_at(fs, entry)
    IN  IF func = 0 THEN [functions |-> fs, raised |-> "AttributeError"]
        ELSE PhaseALoop([functions |-> fs, raised |-> "none"], func, 1)

----------------------------------------------------------------------------
(* _set_if_uefi_core_type (phase B of _set_global_variables)               *)

\* CoreSymbol with the token counts left unchecked
CoreSymbol_AnyLength(t) ==
    IF t.tokens[1] = sEFI_HANDLE THEN sgHandle
    ELSE IF t.tokens[1] = sEFI_BOOT_SERVICES THEN sgBS
    ELSE IF t.tokens[1] = sEFI_RUNTIME_SERVICES THEN sgRS
    ELSE IF t.tokens[1] = sEFI_SYSTEM_TABLE THEN sgST
    ELSE IF t.tokens[1] = sEFI_PEI_FILE_HANDLE THEN sgHandle
    ELSE IF t.tokens[1] = sEFI_PEI_SERVICES THEN sgPeiServices
    ELSE <<>>

\* lines 164-179: the symbol of a type, <<>> where none matched
CoreSymbol(t) ==
    IF Len(t.tokens) = 1 /\ t.tokens[1] = sEFI_HANDLE THEN sgHandle
    ELSE IF Len(t.tokens) = 2 /\ t.tokens[1] = sEFI_BOOT_SERVICES THEN sgBS
    ELSE IF Len(t.tokens) = 2 /\ t.tokens[1] = sEFI_RUNTIME_SERVICES THEN sgRS
    ELSE IF Len(t.tokens) = 2 /\ t.tokens[1] = sEFI_SYSTEM_TABLE THEN sgST
    ELSE IF Len(t.tokens) = 1 /\ t.tokens[1] = sEFI_PEI_FILE_HANDLE THEN sgHandle
    ELSE IF Len(t.tokens) = 2 /\ t.tokens[1] = sEFI_PEI_SERVICES THEN sgPeiServices
    ELSE <<>>

\* line 168: the branch that appends to self.gbs_assignments
IsBootServicesBranch(t) ==
    Len(t.tokens) = 2 /\ t.tokens[1] = sEFI_BOOT_SERVICES

\* lines 146-182; w is [gbs, log]
set_if_uefi_core_type(w, fs, f, instr) ==
    IF instr.operation # "HLIL_ASSIGN" THEN w
    ELSE IF instr.dest.operation # "HLIL_DEREF" THEN w
    ELSE IF instr.dest.src.operation # "HLIL_CONST_PTR" THEN w
    ELSE IF instr.src.operation # "HLIL_VAR" THEN w
    ELSE LET type == fs[f].vars[instr.src.var].type
             address == instr.dest.src.constant
         IN  IF CoreSymbol(type) = <<>> THEN w
             ELSE [gbs |-> IF IsBootServicesBranch(type)
                           THEN Append(w.gbs, address) ELSE w.gbs,
                   log |-> w.log \o
                       <<SymbolRequest("phase_b", address, CoreSymbol(type), <<>>),
                         DataVarRequest("phase_b", address, type)>>]

\* lines 223-225: the instructions of one function
RECURSIVE PhaseBInstrs(_, _, _, _)
PhaseBInstrs(w, fs, f, k) ==
    IF k > Len(fs[f].hlil) THEN w
    ELSE PhaseBInstrs(set_if_uefi_core_type(w, fs, f, fs[f].hlil[k]), fs, f, k + 1)

\* line 222: for func in self.bv.functions
RECURSIVE phase_b(_, _, _)
phase_b(w, fs, f) ==
    IF f > Len(fs) THEN w
    ELSE phase_b(PhaseBInstrs(w, fs, f, 1), fs, f + 1)

----------------------------------------------------------------------------
(* _name_protocol_vars, _name_protocol_var, _name_proto_from_guid          *)

\* lines 234-246; w is [log, raised]
name_proto_from_guid(w, kb, m, assignment, guid_addr, var_addr) ==
    LET guid == read(m, guid_addr, 16)
        name == check_guid_and_get_name(kb, guid)
    IN  IF Len(guid) # 16 THEN w
        ELSE IF ~Truthy(name) THEN w
        ELSE LET name1 == IF EndsWith(name.name, sGuid)
                          THEN RemoveAll(name.name, sGuid) ELSE name.name
             IN  [w EXCEPT !.log =
                     Append(@, SymbolRequest("name_protocols", var_addr, name1,
                                             <<assignment>>))]

\* line 260: the guard on the argument count
TooFewParams(nparams, guid_idx, proto_idx) ==
    nparams < (IF guid_idx > proto_idx THEN guid_idx ELSE proto_idx)

\* lines 258-269; indexing past the arguments raises IndexError
name_protocol_var(w, kb, m, assignment, instr, guid_idx, proto_idx) ==
    IF TooFewParams(Len(instr.params), guid_idx, proto_idx) THEN w
    ELSE IF guid_idx >= Len(instr.params) THEN [w EXCEPT !.raised = "IndexError"]
    ELSE IF instr.params[guid_idx + 1].operation # "HLIL_CONST_PTR" THEN w
    ELSE IF proto_idx >= Len(instr.params) THEN [w EXCEPT !.raised = "IndexError"]
    ELSE IF instr.params[proto_idx + 1].operation # "HLIL_CONST_PTR" THEN w
    ELSE name_proto_from_guid(w, kb, m, assignment,
                              instr.params[guid_idx + 1].constant,
                              instr.params[proto_idx + 1].constant)

\* lines 284-296: one instruction of a referencing function
NameProtocolInstr(w, kb, m, assignment, instr) ==
    IF instr.operation # "HLIL_CALL" THEN w
    ELSE IF instr.dest.operation # "HLIL_DEREF_FIELD" THEN w
    ELSE IF EndsWith(Str(instr.dest), sArrow \o sLocateProtocol)
         THEN name_protocol_var(w, kb, m, assignment, instr, 0, 2)
    ELSE IF EndsWith(Str(instr.dest), sArrow \o sInstallMultipleProtocolInterfaces)
         THEN name_protocol_var(w, kb, m, assignment, instr, 1, 2)
    ELSE IF EndsWith(Str(instr.dest), sArrow \o sInstallProtocolInterface)
         THEN name_protocol_var(w, kb, m, assignment, instr, 1, 3)
    ELSE w

\* lines 282-283: the instructions of funcs[0], until one raises
RECURSIVE NameProtocolInstrs(_, _, _, _, _, _)
NameProtocolInstrs(w, kb, m, assignment, hlil, k) ==
    IF w.raised # "none" \/ k > Len(hlil) THEN w
    ELSE NameProtocolInstrs(NameProtocolInstr(w, kb, m, assignment, hlil[k]),
                            kb, m, assignment, hlil, k + 1)

\* lines 277-283: the references to one assignment
RECURSIVE NameProtocolXrefs(_, _, _, _, _, _)
NameProtocolXrefs(w, kb, m, fs, assignment, xrefs) ==
    IF w.raised # "none" \/ xrefs = <<>> THEN w
    ELSE LET funcs == get_functions_containing(fs, Head(xrefs))
             w1 == IF funcs = <<>> THEN w
                   ELSE NameProtocolInstrs(w, kb, m, assignment, fs[funcs[1]].hlil, 1)
         IN  NameProtocolXrefs(w1, kb, m, fs, assignment, Tail(xrefs))

\* line 276: for assignment in self.gbs_assignments
RECURSIVE name_protocol_vars(_, _, _, _, _, _)
name_protocol_vars(w, kb, m, fs, refs, gbs) ==
    IF w.raised # "none" \/ gbs = <<>> THEN w
    ELSE name_protocol_vars(
             NameProtocolXrefs(w, kb, m, fs, Head(gbs), get_code_refs(refs, Head(gbs))),
             kb, m, fs, refs, Tail(gbs))

----------------------------------------------------------------------------
(* The task: UEFIHelper(bv), then run(), one action per call.              *)

After(r, next) == IF r = "none" THEN next ELSE "aborted"

\* __init__ (lines 18-24)
UEFIHelperInit ==
    /\ pc = "new"
    /\ LET r == load_guids(csv)
       IN  /\ guids' = r.guids
           /\ raised' = r.raised
           /\ pc' = After(r.raised, "fix_segments")
    /\ gbs_assignments' = <<>>
    /\ UNCHANGED <<csv, mem, segments, sections, functions, entry_point, view_type,
                   code_refs, imported, log>>

\* run, line 303
FixSegments ==
    /\ pc = "fix_segments"
    /\ LET h == fix_segments(segments, [segments |-> segments, sections |-> sections])
       IN  /\ segments' = h.segments
           /\ sections' = h.sections
    /\ log' = Append(log, PassMark("fix_segments"))
    /\ pc' = "import_types"
    /\ UNCHANGED <<raised, csv, guids, gbs_assignments, mem, functions, entry_point,
                   view_type, code_refs, imported>>

\* run, line 304
ImportTypesFromHeaders ==
    /\ pc = "import_types"
    /\ imported' = imported \cup ImportedTypes
    /\ log' = Append(log, PassMark("import_types"))
    /\ pc' = "entry_proto"
    /\ UNCHANGED <<raised, csv, guids, gbs_assignments, mem, segments, sections,
                   functions, entry_point, view_type, code_refs>>

\* run, line 305
SetEntryPointPrototype ==
    /\ pc = "entry_proto"
    /\ LET r == set_entry_point_prototype(functions, entry_point, view_type)
       IN  /\ functions' = r.functions
           /\ raised' = r.raised
           /\ pc' = After(r.raised, "find_guids")
    /\ log' = Append(log, PassMark("entry_proto"))
    /\ UNCHANGED <<csv, guids, gbs_assignments, mem, segments, sections, entry_point,
                   view_type, code_refs, imported>>

\* run, line 306
FindKnownGuids ==
    /\ pc = "find_guids"
    /\ log' = find_known_guids(Append(log, PassMark("find_guids")), guids, mem,
                               functions, segments)
    /\ pc' = "phase_a"
    /\ UNCHANGED <<raised, csv, guids, gbs_assignments, mem, segments, sections,
                   functions, entry_point, view_type, code_refs, imported>>

\* run, line 308: _set_global_variables, its first loop
SetGlobalVariablesA ==
    /\ pc = "phase_a"
    /\ LET r == phase_a(functions, entry_point)
       IN  /\ functions' = r.functions
           /\ raised' = r.raised
           /\ pc' = After(r.raised, "phase_b")
    /\ log' = Append(log, PassMark("phase_a"))
    /\ UNCHANGED <<csv, guids, gbs_assignments, mem, segments, sections, entry_point,
                   view_type, code_refs, imported>>

\* SetGlobalVariablesB going on to the protocol naming with no barrier
SetGlobalVariablesB_SkipsBarrier ==
    /\ pc = "phase_b"
    /\ LET r == phase_b([gbs |-> gbs_assignments,
                         log |-> Append(log, PassMark("phase_b"))], functions, 1)
       IN  /\ gbs_assignments' = r.gbs
           /\ log' = r.log
    /\ pc' = "name_protocols"
    /\ UNCHANGED <<raised, csv, guids, mem, segments, sections, functions, entry_point,
                   view_type, code_refs, imported>>

\* _set_global_variables, its second loop
SetGlobalVariablesB ==
    /\ pc = "phase_b"
    /\ LET r == phase_b([gbs |-> gbs_assignments,
                         log |-> Append(log, PassMark("phase_b"))], functions, 1)
       IN  /\ gbs_assignments' = r.gbs
           /\ log' = r.log
    /\ pc' = "barrier"
    /\ UNCHANGED <<raised, csv, guids, mem, segments, sections, functions, entry_point,
                   view_type, code_refs, imported>>

\* run, line 309
UpdateAnalysisAndWait ==
    /\ pc = "barrier"
    /\ log' = Append(log, PassMark("barrier"))
    /\ pc' = "name_protocols"
    /\ UNCHANGED <<raised, csv, guids, gbs_assignments, mem, segments, sections,
                   functions, entry_point, view_type, code_refs, imported>>

\* run, line 311
NameProtocolVars ==
    /\ pc = "name_protocols"
    /\ LET r == name_protocol_vars([log |-> Append(log, PassMark("name_protocols")),
                                    raised |-> "none"],
                                   guids, mem, functions, code_refs, gbs_assignments)
       IN  /\ log' = r.log
           /\ raised' = r.raised
           /\ pc' = After(r.raised, "completed")
    /\ UNCHANGED <<csv, guids, gbs_assignments, mem, segments, sections, functions,
                   entry_point, view_type, code_refs, imported>>

\* run, line 312
Completed ==
    /\ pc = "completed"
    /\ pc' = "done"
    /\ UNCHANGED <<raised, csv, guids, gbs_assignments, mem, segments, sections,
                   functions, entry_point, view_type, code_refs, imported, log>>

Next ==
    \/ UEFIHelperInit
    \/ FixSegments
    \/ ImportTypesFromHeaders
    \/ SetEntryPointPrototype
    \/ FindKnownGuids
    \/ SetGlobalVariablesA
    \/ SetGlobalVariablesB
    \/ UpdateAnalysisAndWait
    \/ NameProtocolVars
    \/ Completed

----------------------------------------------------------------------------
(* The images the task is run on.  Every image is a small module: code in  *)
(* [0, 16) with the entry function at 0 and an initialization routine at   *)
(* 8, data from 16 up to MemLen, globals at 100 and 101 and a protocol     *)
(* pointer at 200 (outside the bytes the file backs).                      *)

MemLen == 40        \* bytes of the image
MaxRows == 3        \* rows of guids.csv
MaxArgs == 4        \* arguments of a call through gBS
MaxCallArgs == 3    \* arguments of a call in the entry function
MaxInstrs == 2      \* assignments in the initialization routine

SeqsUpTo(S, n) == UNION {[1..k -> S] : k \in 0..n}

\* the image bytes: img at address g (cut off at the end), zeroes elsewhere
MemWith(img, g) ==
    [i \in 1..MemLen |-> IF g < i /\ i <= g + 16 THEN img[i - g] ELSE 0]

BaseCsv == << <<gsMixed, nFooGuid>> >>
BaseMem == MemWith(imgM, 20)
BaseSegments ==
    << Segment(0, 16, 0, 16, {"SegmentReadable", "SegmentExecutable"}),
       Segment(16, MemLen - 16, 16, MemLen - 16, {"SegmentReadable"}) >>
BaseSections ==
    << Section("text", 0, 16, 1), Section("data", 16, MemLen - 16, 2) >>
BaseRefs == (100 :> <<10>>) @@ (101 :> <<11>>)

EntryVars ==
    << Variable("arg1", tInt64), Variable("arg2", tInt64),
       Variable("var_18", tBootServicesPtr), Variable("var_20", tInt64) >>
InitVars ==
    << Variable("arg1", tInt64), Variable("arg2", tInt64),
       Variable("rax", tBootServicesPtr), Variable("rcx", tSystemTablePtr),
       Variable("rdx", tHandle), Variable("r8", tPeiFileHandle),
       Variable("r9", tRuntimeServicesPtr), Variable("r10", tPeiServicesPtr),
       Variable("r11", tStatus), Variable("r12", tInt64),
       Variable("r13", tBootServices), Variable("r14", tHandlePtr),
       Variable("r15", tBootServicesPtrPtr) >>

LocateCall ==
    Call(DerefField(sgBS, sLocateProtocol), <<ConstPtr(20), Const(0), ConstPtr(200)>>)
BaseEntryHlil == << Call(ConstPtr(8), <<Var(1), Var(2)>>), Ret >>
BaseInitHlil ==
    << Assign(Deref(ConstPtr(101)), Var(2)), Assign(Deref(ConstPtr(100)), Var(3)),
       LocateCall >>

EntryFunction(nparams, hlil) == Function(0, 8, nparams, EntryVars, hlil)
InitFunction(hlil) == Function(8, 16, 2, InitVars, hlil)
BaseFunctions == << EntryFunction(2, BaseEntryHlil), InitFunction(BaseInitHlil) >>

\* the state before UEFIHelper(bv)
Start(rows, m, segs, secs, fs, ep, vt, refs) ==
    /\ pc = "new"
    /\ raised = "none"
    /\ csv = rows
    /\ guids = <<>>
    /\ gbs_assignments = <<>>
    /\ mem = m
    /\ segments = segs
    /\ sections = secs
    /\ functions = fs
    /\ entry_point = ep
    /\ view_type = vt
    /\ code_refs = refs
    /\ imported = {}
    /\ log = <<>>

\* guids.csv: rows of two fields, GUID strings in several spellings, one
\* string that is no UUID, and one row of a single field
CsvRows ==
    ({gsUpper, gsLower, gsMixed} \X {nFooGuid, nBar})
        \cup {<<gsBraced, nFooGuidBar>>, <<gsBad, nBar>>, <<gsMixed>>}

InitKB ==
    \E rows \in SeqsUpTo(CsvRows, MaxRows) :
        Start(rows, BaseMem, BaseSegments, BaseSections, BaseFunctions, 0, "PE", BaseRefs)

\* the scan: a GUID anywhere in the image, functions at two layouts
ScanCsv == { BaseCsv, << <<gsMixed, nFooGuid>>, <<gsUpper, nBar>> >> }
ScanFunctions ==
    { BaseFunctions,
      << EntryFunction(2, << Call(ConstPtr(18), <<Var(1), Var(2)>>), Ret >>),
         Function(18, 30, 2, InitVars, BaseInitHlil) >> }

InitScan ==
    \E g \in 0..(MemLen - 1), img \in {imgM, imgA}, rows \in ScanCsv, fs \in ScanFunctions :
        Start(rows, MemWith(img, g), BaseSegments, BaseSections, fs, 0, "PE", BaseRefs)

\* the segment fixup: one or two segments, two sections, boundaries at
\* multiples of 8, a segment whose file data is shorter than the segment
Boundaries == {b \in 1..(MemLen - 1) : b % 8 = 0}
SegLayouts ==
    { << Segment(0, MemLen, 0, MemLen - d, {"SegmentReadable"}) >> : d \in {0, 4} }
    \cup
    { << Segment(0, b, 0, b, {"SegmentReadable", "SegmentExecutable"}),
         Segment(b, MemLen - b, b, MemLen - b - d, {"SegmentReadable"}) >> :
        b \in Boundaries, d \in {0, 4} }
SecLayouts ==
    { << Section("text", 0, c, 1), Section("data", c, MemLen - c, 2) >> :
        c \in Boundaries }

InitSeg ==
    \E segs \in SegLayouts, secs \in SecLayouts :
        Start(BaseCsv, BaseMem, segs, secs, BaseFunctions, 0, "PE", BaseRefs)

\* the entry point: with or without a function, 0 to 3 parameters, PE or TE
InitEntry ==
    \E ep \in {0, 4}, vt \in {"PE", "TE"}, n \in 0..3, img \in {imgM, imgA} :
        Start(BaseCsv, MemWith(img, 20), BaseSegments, BaseSections,
              << EntryFunction(n, BaseEntryHlil), InitFunction(BaseInitHlil) >>,
              ep, vt, BaseRefs)

\* phase A: one instruction of the entry function
CallArgs == SeqsUpTo({Var(1), Var(4), Const(0)}, MaxCallArgs)
CallTargets == {ConstPtr(8), ConstPtr(4), Var(3)}
Calls ==
    {Call(t, a) : t \in CallTargets, a \in CallArgs}
        \cup {TailCall(t, a) : t \in CallTargets, a \in CallArgs}
EntryInstrs ==
    Calls \cup {Assign(Var(4), c) : c \in Calls} \cup {AssignUnpack(c) : c \in Calls}
        \cup {Ret, Assign(Var(4), Var(1)), VarInit(Var(4), Call(ConstPtr(4), <<>>))}

InitPhaseA ==
    \E i \in EntryInstrs, vt \in {"PE", "TE"} :
        Start(BaseCsv, BaseMem, BaseSegments, BaseSections,
              << EntryFunction(2, <<i, Ret>>), InitFunction(BaseInitHlil) >>,
              0, vt, BaseRefs)

\* phase B: up to MaxInstrs instructions of the initialization routine,
\* then a call of LocateProtocol
GlobalInstrs ==
    {Assign(Deref(ConstPtr(a)), Var(v)) : a \in {100, 101}, v \in {3, 4, 5}}
        \cup {Assign(Deref(ConstPtr(100)), Var(v)) : v \in 6..Len(InitVars)}
        \cup { Assign(Var(10), Var(3)), Assign(Deref(Var(10)), Var(3)),
               Assign(Deref(ConstPtr(100)), Const(0)),
               Assign(Deref(ConstPtr(100)), Deref(Var(3))),
               VarInit(Var(10), Var(3)),
               Call(ConstPtr(0), <<Var(3)>>), Ret }

InitGlobals ==
    \E is \in SeqsUpTo(GlobalInstrs, MaxInstrs) :
        Start(BaseCsv, BaseMem, BaseSegments, BaseSections,
              << EntryFunction(2, BaseEntryHlil), InitFunction(is \o <<LocateCall>>) >>,
              0, "PE", BaseRefs)

\* protocol naming: one call through a field of gBS
ProtoMembers ==
    {sLocateProtocol, sInstallMultipleProtocolInterfaces, sInstallProtocolInterface,
     sXLocateProtocol, sHandleProtocol}
ProtoArgs == SeqsUpTo({ConstPtr(20), ConstPtr(200), Var(1)}, MaxArgs)
ProtoNames == {nFooGuid, nGuidedFooGuid, nFooGuidBar, nBar}

InitProto ==
    \E member \in ProtoMembers, args \in ProtoArgs, name \in ProtoNames :
        Start(<< <<gsMixed, name>> >>, BaseMem, BaseSegments, BaseSections,
              << EntryFunction(2, BaseEntryHlil),
                 InitFunction(<< Assign(Deref(ConstPtr(100)), Var(3)),
                                 Call(DerefField(sgBS, member), args), Ret >>) >>,
              0, "PE", BaseRefs)

Init ==
    \/ InitKB
    \/ InitScan
    \/ InitSeg
    \/ InitEntry
    \/ InitPhaseA
    \/ InitGlobals
    \/ InitProto

Spec == Init /\ [][Next]_vars
SpecKB == InitKB /\ [][Next]_vars
SpecScan == InitScan /\ [][Next]_vars
SpecSeg == InitSeg /\ [][Next]_vars
SpecEntry == InitEntry /\ [][Next]_vars
SpecPhaseA == InitPhaseA /\ [][Next]_vars
SpecGlobals == InitGlobals /\ [][Next]_vars
SpecProto == InitProto /\ [][Next]_vars

----------------------------------------------------------------------------
(* Readings of the log and of the image that the properties share.         *)

Started == pc # "new"
PhaseBDone == pc \in {"barrier", "name_protocols", "completed", "done"}

\* the requests of one pass, in the order they were made
RequestsOf(pass) ==
    SelectSeq(log, LAMBDA r : r.op # "pass" /\ r.pass = pass)

\* the passes begun, in the order they began
Marks == SelectSeq(log, LAMBDA r : r.op = "pass")

IsSymbol(r) == r.op = "define_user_symbol"

\* some function's range holds the address
Occupied(a) == \E i \in 1..Len(functions) : functions[i].start <= a /\ a < functions[i].end

\* the name the host's symbol store ends with at an address (last write
\* wins), <<>> where phase B defined none
RECURSIVE LastSymbol(_, _)
LastSymbol(rs, a) ==
    IF rs = <<>> THEN <<>>
    ELSE LET r == rs[Len(rs)]
         IN  IF IsSymbol(r) /\ r.address = a THEN r.name
             ELSE LastSymbol(SubSeq(rs, 1, Len(rs) - 1), a)

----------------------------------------------------------------------------
(* C1: the scanner emits nothing at an address a function occupies, be it  *)
(* the function's start or an address inside it.  Stated as the claim      *)
(* has it; the code asks get_functions_at, which knows function starts     *)
(* only.                                                                   *)

C1_ScannerExclusion ==
    \A k \in 1..Len(log) :
        (log[k].op # "pass" /\ log[k].pass = "find_guids") => ~Occupied(log[k].address)

----------------------------------------------------------------------------
(* C2: the passes begin in the order of run() and in no other; every       *)
(* request is made within its own pass; and each protocol name derived     *)
(* from the references to an address A comes after the barrier, which      *)
(* comes after every gBS request at A, of which there is at least one.     *)

PassOrder ==
    <<"fix_segments", "import_types", "entry_proto", "find_guids", "phase_a",
      "phase_b", "barrier", "name_protocols">>

\* the pass that was running when log[k] was written
RECURSIVE RunningAt(_)
RunningAt(k) ==
    IF k = 0 THEN "none"
    ELSE IF log[k].op = "pass" THEN log[k].pass ELSE RunningAt(k - 1)

C2_PassOrdering ==
    /\ Len(Marks) <= Len(PassOrder)
    /\ \A i \in 1..Len(Marks) : Marks[i].pass = PassOrder[i]
    /\ \A k \in 1..Len(log) : log[k].pass = RunningAt(k)
    /\ \A j \in 1..Len(log) :
           (log[j].pass = "name_protocols" /\ IsSymbol(log[j])) =>
               \E b \in 1..(j - 1) :
                   /\ log[b] = PassMark("barrier")
                   /\ \E i \in 1..(b - 1) :
                          /\ IsSymbol(log[i])
                          /\ log[i].name = sgBS
                          /\ <<log[i].address>> = log[j].assignment
                   /\ \A i \in 1..Len(log) :
                          (IsSymbol(log[i]) /\ log[i].name = sgBS
                               /\ <<log[i].address>> = log[j].assignment) => i < b

\* a run that went through every pass and named a protocol variable
C2_Witness ==
    /\ pc = "done"
    /\ Len(Marks) = Len(PassOrder)
    /\ \E j \in 1..Len(log) : log[j].pass = "name_protocols" /\ IsSymbol(log[j])

----------------------------------------------------------------------------
(* C3: with no function at the entry point, or an entry function of fewer  *)
(* than two parameters, the task does not end in an exception and the      *)
(* entry function's variables stay as they were; a non-TE image with two   *)
(* or more parameters gets ImageHandle and SystemTable; a TE image is left *)
(* alone.  Stated as the claim has it; the code indexes None and           *)
(* parameter_vars unguarded.                                               *)

EntryIndex == get_function_at(functions, entry_point)
EntryLacking == EntryIndex = 0 \/ functions[EntryIndex].nparams < 2

C3_EntryFailureNonFatal ==
    /\ EntryLacking => (raised = "none" /\ pc # "aborted")
    /\ (EntryLacking /\ EntryIndex # 0 /\ pc = "find_guids") =>
           functions[EntryIndex].vars = EntryVars
    /\ (~EntryLacking /\ view_type # "TE" /\ pc = "find_guids") =>
           /\ functions[EntryIndex].vars[1] = Variable("ImageHandle", tHandle)
           /\ functions[EntryIndex].vars[2] = Variable("SystemTable", tSystemTablePtr)
    /\ (~EntryLacking /\ view_type = "TE" /\ pc = "find_guids") =>
           functions[EntryIndex].vars = EntryVars

----------------------------------------------------------------------------
(* C4, C5: the call under test is the second instruction of the            *)
(* initialization routine.  The index pair of a field path, as the table   *)
(* of the three suffixes gives it.                                         *)

TheCall == functions[2].hlil[2]
IsFieldCall(i) == i.operation = "HLIL_CALL" /\ i.dest.operation = "HLIL_DEREF_FIELD"

PathPair(path) ==
    IF EndsWith(path, <<"-", ">">> \o sLocateProtocol) THEN <<0, 2>>
    ELSE IF EndsWith(path, <<"-", ">">> \o sInstallMultipleProtocolInterfaces) THEN <<1, 2>>
    ELSE IF EndsWith(path, <<"-", ">">> \o sInstallProtocolInterface) THEN <<1, 3>>
    ELSE <<>>

Matched == IsFieldCall(TheCall) /\ PathPair(Str(TheCall.dest)) # <<>>
GuidIdx == PathPair(Str(TheCall.dest))[1]
ProtoIdx == PathPair(Str(TheCall.dest))[2]
Larger(a, b) == IF a > b THEN a ELSE b
IsConstAddr(params, idx) ==
    idx < Len(params) /\ params[idx + 1].operation = "HLIL_CONST_PTR"

(* C4: a matched call with at most max(g, p) arguments, or whose argument  *)
(* g or p is no constant address, is skipped: no request, no exception.    *)
(* Stated as the claim has it; the code's guard lets exactly max(g, p)     *)
(* arguments through and then indexes past them.                           *)
C4_CallSiteGuard ==
    (/\ Started
     /\ Matched
     /\ \/ Len(TheCall.params) <= Larger(GuidIdx, ProtoIdx)
        \/ ~IsConstAddr(TheCall.params, GuidIdx)
        \/ ~IsConstAddr(TheCall.params, ProtoIdx))
    => /\ raised = "none"
       /\ RequestsOf("name_protocols") = <<>>

(* C5: a matched call with constant GUID and protocol arguments, the GUID  *)
(* known under N, defines exactly one symbol, at the protocol address,     *)
(* named N less a trailing "Guid" and no other part of N, and no data      *)
(* variable.  Stated as the claim has it; the code removes every "Guid".   *)
StripTrailing(n, suffix) ==
    IF EndsWith(n, suffix) THEN SubSeq(n, 1, Len(n) - Len(suffix)) ELSE n

C5_ProtocolNaming ==
    (/\ pc = "done"
     /\ Matched
     /\ IsConstAddr(TheCall.params, GuidIdx)
     /\ IsConstAddr(TheCall.params, ProtoIdx)
     /\ Len(read(mem, TheCall.params[GuidIdx + 1].constant, 16)) = 16
     /\ \E i \in 1..Len(guids) :
            guids[i][2] = read(mem, TheCall.params[GuidIdx + 1].constant, 16))
    => LET N == guids[CHOOSE i \in 1..Len(guids) :
                      guids[i][2] = read(mem, TheCall.params[GuidIdx + 1].constant, 16)][1]
           made == RequestsOf("name_protocols")
       IN  /\ Len(made) = 1
           /\ IsSymbol(made[1])
           /\ made[1].address = TheCall.params[ProtoIdx + 1].constant
           /\ made[1].name = StripTrailing(N, sGuid)

----------------------------------------------------------------------------
(* C6: for every name the loader kept, the name found for that name's      *)
(* bytes is the name itself.  Stated as the claim has it; the loader keys  *)
(* its rows by the GUID string, so two spellings of one value load two     *)
(* names with equal bytes, and the lookup finds the first.                 *)

lookupBytes(name) == DictGet(guids, name)
lookupName(bytes) == check_guid_and_get_name(guids, bytes)

C6_RoundTrip ==
    (Started /\ raised = "none") =>
        \A i \in 1..Len(guids) :
            /\ lookupName(lookupBytes(guids[i][1])).found
            /\ lookupName(lookupBytes(guids[i][1])).name = guids[i][1]

----------------------------------------------------------------------------
(* C7: phase B requests exactly what the classification of the claim       *)
(* gives, instruction by instruction over all functions in order: for an   *)
(* assignment *(constant C) = variable of a core type, the symbol of the   *)
(* type at C and then a data variable at C of the variable's type, and C   *)
(* joins gbs_assignments for EFI_BOOT_SERVICES alone; nothing for any      *)
(* other instruction; and the pass never ends the task.                    *)

SymbolOfTokens(tokens) ==
    CASE tokens = <<sEFI_HANDLE>> -> sgHandle
      [] tokens = <<sEFI_PEI_FILE_HANDLE>> -> sgHandle
      [] Len(tokens) = 2 /\ tokens[1] = sEFI_BOOT_SERVICES -> sgBS
      [] Len(tokens) = 2 /\ tokens[1] = sEFI_RUNTIME_SERVICES -> sgRS
      [] Len(tokens) = 2 /\ tokens[1] = sEFI_SYSTEM_TABLE -> sgST
      [] Len(tokens) = 2 /\ tokens[1] = sEFI_PEI_SERVICES -> sgPeiServices
      [] OTHER -> <<>>

IsGlobalAssignment(fs, f, i) ==
    /\ i.operation = "HLIL_ASSIGN"
    /\ i.dest.operation = "HLIL_DEREF"
    /\ i.dest.src.operation = "HLIL_CONST_PTR"
    /\ i.src.operation = "HLIL_VAR"
    /\ SymbolOfTokens(fs[f].vars[i.src.var].type.tokens) # <<>>

ExpectedOf(fs, f, i) ==
    IF IsGlobalAssignment(fs, f, i)
    THEN LET t == fs[f].vars[i.src.var].type
             C == i.dest.src.constant
         IN  [requests |-> << [op |-> "define_user_symbol", pass |-> "phase_b",
                               address |-> C, name |-> SymbolOfTokens(t.tokens),
                               assignment |-> <<>>],
                              [op |-> "define_user_data_var", pass |-> "phase_b",
                               address |-> C, type |-> t] >>,
              gbs |-> IF t.tokens[1] = sEFI_BOOT_SERVICES THEN <<C>> ELSE <<>>]
    ELSE [requests |-> <<>>, gbs |-> <<>>]

RECURSIVE ExpectedFrom(_, _, _)
ExpectedFrom(fs, f, k) ==
    IF f > Len(fs) THEN [requests |-> <<>>, gbs |-> <<>>]
    ELSE IF k > Len(fs[f].hlil) THEN ExpectedFrom(fs, f + 1, 1)
    ELSE LET here == ExpectedOf(fs, f, fs[f].hlil[k])
             rest == ExpectedFrom(fs, f, k + 1)
         IN  [requests |-> here.requests \o rest.requests, gbs |-> here.gbs \o rest.gbs]

C7_GlobalClassification ==
    /\ PhaseBDone =>
           /\ RequestsOf("phase_b") = ExpectedFrom(functions, 1, 1).requests
           /\ gbs_assignments = ExpectedFrom(functions, 1, 1).gbs
    /\ pc = "aborted" => (Marks = <<>> \/ Marks[Len(Marks)].pass # "phase_b")

\* a run in which an assignment of EFI_BOOT_SERVICES * was classified and
\* one of EFI_BOOT_SERVICES ** to the same address was passed over
C7_Witness ==
    /\ pc = "done"
    /\ functions[2].hlil[1] = Assign(Deref(ConstPtr(100)), Var(3))
    /\ functions[2].hlil[2] = Assign(Deref(ConstPtr(100)), Var(13))
    /\ gbs_assignments = <<100>>
    /\ Len(RequestsOf("phase_b")) = 2

----------------------------------------------------------------------------
(* C8: the fixup declares every segment readable, writable and executable  *)
(* with its start and data extent kept, and every section that covers any  *)
(* part of a segment is declared again under its name, with its start and  *)
(* length kept, as read-write data.  Stated as the claim has it; the code  *)
(* asks for the sections at the segment's start only, and hands            *)
(* add_user_section the length where the start goes.                       *)

Covers(sec, seg) == sec.start < SegEnd(seg) /\ seg.start < SecEnd(sec)

SegmentsNormalized ==
    /\ Len(segments') = Len(segments)
    /\ \A i \in 1..Len(segments) :
           /\ segments'[i].start = segments[i].start
           /\ segments'[i].data_offset = segments[i].data_offset
           /\ segments'[i].data_length = segments[i].data_length
           /\ segments'[i].flags =
                  {"SegmentReadable", "SegmentWritable", "SegmentExecutable"}
    /\ Len(sections') = Len(sections)
    /\ \A j \in 1..Len(sections) :
           (\E i \in 1..Len(segments) : Covers(sections[j], segments[i])) =>
               sections'[j] = [name |-> sections[j].name, start |-> sections[j].start,
                               length |-> sections[j].length, semantics |-> 3]

C8_SegmentNormalizer == [][pc = "fix_segments" => SegmentsNormalized]_vars

----------------------------------------------------------------------------
(* C9: phase A never ends the task, whatever the entry function holds,     *)
(* and phase B follows; a call or tail call, bare or the source of an      *)
(* assignment, of a function at a constant address gives the callee's      *)
(* parameter i the name and type of argument i exactly when argument i is  *)
(* a variable whose type's display name contains "EFI_".  Stated as the    *)
(* claim has it; the code indexes None for a target with no function and   *)
(* indexes past the arguments of a call that passes too few.               *)

CallOf(i) ==
    IF i.operation \in {"HLIL_ASSIGN", "HLIL_ASSIGN_UNPACK"} THEN i.src ELSE i

IsStaticCall(fs, i) ==
    /\ CallOf(i).operation \in {"HLIL_CALL", "HLIL_TAILCALL"}
    /\ CallOf(i).dest.operation = "HLIL_CONST_PTR"
    /\ \E f \in 1..Len(fs) : fs[f].start = CallOf(i).dest.constant

IsEfiVariable(fs, caller, arg) ==
    /\ arg.operation = "HLIL_VAR"
    /\ \E k \in 1..(Len(TypeStr(fs[caller].vars[arg.var].type)) - 3) :
           SubSeq(TypeStr(fs[caller].vars[arg.var].type), k, k + 3) = <<"E", "F", "I", "_">>

Propagated(fs, caller, i) ==
    IF ~IsStaticCall(fs, i) THEN fs
    ELSE LET c == CallOf(i)
             callee == CHOOSE f \in 1..Len(fs) : fs[f].start = c.dest.constant
         IN  [fs EXCEPT ![callee].vars =
                 [v \in 1..Len(fs[callee].vars) |->
                     IF /\ v <= fs[callee].nparams
                        /\ v <= Len(c.params)
                        /\ IsEfiVariable(fs, caller, c.params[v])
                     THEN fs[caller].vars[c.params[v].var]
                     ELSE fs[callee].vars[v]]]

RECURSIVE PropagatedAll(_, _, _)
PropagatedAll(fs, caller, k) ==
    IF k > Len(fs[caller].hlil) THEN fs
    ELSE PropagatedAll(Propagated(fs, caller, fs[caller].hlil[k]), caller, k + 1)

PhaseAPost ==
    /\ raised' = "none"
    /\ pc' = "phase_b"
    /\ functions' = PropagatedAll(functions, get_function_at(functions, entry_point), 1)

C9_PhaseAPropagation ==
    [][(pc = "phase_a" /\ get_function_at(functions, entry_point) # 0) => PhaseAPost]_vars

----------------------------------------------------------------------------
(* C10: every address whose references the protocol naming walks ends      *)
(* phase B with the symbol gBS: an address a later assignment named gST,   *)
(* gRS, gHandle or gPeiServices is not walked.  Stated as the claim has    *)
(* it; the code appends to gbs_assignments and never removes.              *)

C10_OnlyBootServicesConsumed ==
    pc \in {"completed", "done"} =>
        /\ \A k \in 1..Len(gbs_assignments) :
               LastSymbol(RequestsOf("phase_b"), gbs_assignments[k]) = sgBS
        /\ \A j \in 1..Len(log) :
               (log[j].pass = "name_protocols" /\ IsSymbol(log[j])) =>
                   LastSymbol(RequestsOf("phase_b"), log[j].assignment[1]) = sgBS

====
